---- MODULE Spec2Model ----
(***************************************************************************)
(* The to-do list server of htmx-fastapi.py: three SQLAlchemy tables       *)
(* (personal_tasks, work_tasks, shopping_tasks) in one SQLite database,    *)
(* one process-wide session, and fifteen FastAPI handlers plus the home    *)
(* page.  Text is modelled as a sequence of one-character strings.         *)
(***************************************************************************)
EXTENDS Integers, Sequences, FiniteSets, TLC

VARIABLES
    db,        \* the rows of todolist.db, each tagged with its table
    resp,      \* the last request the server answered, with its response
    flips,     \* history: per row, its successful toggles since creation, mod 2
    inflight,  \* SpecConc: the requests accepted, each with its coroutine's position
    running    \* SpecConc: the request whose coroutine holds the event loop (0: idle)

vars == <<db, resp, flips, inflight, running>>

---------------------------------------------------------------------------
(* Bounds *)

MaxId == 2
MaxRows == 2
MaxBodyLen == 3
MaxRequests == 3

---------------------------------------------------------------------------
(* Tables and the ORM *)

Categories == {"personal", "work", "shopping"}

\* __tablename__ of PersonalTask, WorkTask, ShoppingTask
TableName(c) ==
    CASE c = "personal" -> "personal_tasks"
      [] c = "work"     -> "work_tasks"
      [] c = "shopping" -> "shopping_tasks"

\* Mutant: delete_shopping_task copied from the work handlers with the class
\* name left as WorkTask.
HandlerModelCopied(op, c) ==
    IF op = "delete" /\ c = "shopping" THEN "work_tasks" ELSE TableName(c)

\* The ORM class each handler of a category names in session.query(...) and in
\* its constructor call: the personal handlers name PersonalTask, the work
\* handlers WorkTask, the shopping handlers ShoppingTask.
HandlerModel(op, c) ==
    CASE c = "personal" -> "personal_tasks"
      [] c = "work"     -> "work_tasks"
      [] c = "shopping" -> "shopping_tasks"

\* What .first() returns when no row matches (None)
NoTask == [tablename |-> "", id |-> 0, name |-> <<>>, status |-> FALSE]

\* session.query(Model).all()
Query(d, t) == {r \in d : r.tablename = t}

\* session.query(Model).filter(Model.id == task_id).first()
First(d, t, id) ==
    IF \E r \in Query(d, t) : r.id = id
    THEN CHOOSE r \in Query(d, t) : r.id = id
    ELSE NoTask

\* Column(Integer, primary_key=True) on SQLite is an INTEGER PRIMARY KEY, an
\* alias of the rowid, declared without AUTOINCREMENT: an insert that gives no
\* id gets the largest id in the table plus one, and 1 in an empty table.
NextId(d, t) ==
    LET ids == {r.id : r \in Query(d, t)}
    IN  IF ids = {} THEN 1
        ELSE (CHOOSE m \in ids : \A k \in ids : k <= m) + 1

\* Mutant: the task is constructed with status = True.
NewTaskCompleted(t, id, name) ==
    [tablename |-> t, id |-> id, name |-> name, status |-> TRUE]

\* Model(name=name, status=status) with status = False
NewTask(t, id, name) == [tablename |-> t, id |-> id, name |-> name, status |-> FALSE]

\* Mutant: the toggle sets the status instead of negating it.
SetCompleted(r) == [r EXCEPT !.status = TRUE]

\* task.status = not task.status
Negated(r) == [r EXCEPT !.status = ~r.status]

Key(r) == <<r.tablename, r.id>>

---------------------------------------------------------------------------
(* The form body *)

Eq == "="

\* str.split("="): the pieces of s between the separators, at least one
RECURSIVE Split(_)
Split(s) ==
    IF \A i \in 1..Len(s) : s[i] # Eq THEN <<s>>
    ELSE LET i == CHOOSE j \in 1..Len(s) :
                      s[j] = Eq /\ \A k \in 1..(j - 1) : s[k] # Eq
         IN  <<SubSeq(s, 1, i - 1)>> \o Split(SubSeq(s, i + 1, Len(s)))

HexDigits == {"0", "1", "2", "3", "4", "5", "6", "7", "8", "9",
              "a", "b", "c", "d", "e", "f", "A", "B", "C", "D", "E", "F"}

\* The character a %XX escape stands for, for the escapes the form encoding
\* of the modelled alphabet writes; "?" for any other byte.
Unescape(h1, h2) ==
    CASE h1 = "2" /\ h2 = "0" -> " "
      [] h1 = "2" /\ h2 = "5" -> "%"
      [] h1 = "2" /\ h2 = "6" -> "&"
      [] h1 = "2" /\ h2 \in {"B", "b"} -> "+"
      [] h1 = "3" /\ h2 \in {"D", "d"} -> "="
      [] OTHER -> "?"

\* urllib.parse.unquote: each %XX with two hex digits becomes its character;
\* everything else, '+' included, is kept as it is.
RECURSIVE Unquote(_)
Unquote(s) ==
    IF s = <<>> THEN <<>>
    ELSE IF s[1] = "%" /\ Len(s) >= 3 /\ s[2] \in HexDigits /\ s[3] \in HexDigits
         THEN <<Unescape(s[2], s[3])>> \o Unquote(SubSeq(s, 4, Len(s)))
         ELSE <<s[1]>> \o Unquote(Tail(s))

\* Mutant: a missing second piece is read as an empty name.
ParseNameLenient(body) ==
    LET parts == Split(body)
    IN  [error |-> "", name |-> IF Len(parts) < 2 THEN <<>> ELSE Unquote(parts[2])]

\* urllib.parse.unquote(body.decode().split("=")[1]): index 1 of a list of one
\* piece raises IndexError.
ParseName(body) ==
    LET parts == Split(body)
    IN  IF Len(parts) < 2
        THEN [error |-> "IndexError", name |-> <<>>]
        ELSE [error |-> "", name |-> Unquote(parts[2])]

---------------------------------------------------------------------------
(* Responses *)

\* The names bound at module level: what the import statements bring in and
\* what the module itself defines before the routes.
ImportedNames ==
    {"FastAPI", "Request", "Response", "Jinja2Templates", "StaticFiles",
     "HTMLResponse", "create_engine", "Column", "Integer", "String", "Boolean",
     "sessionmaker", "declarative_base", "Path", "urllib",
     "app", "engine", "Base", "PersonalTask", "WorkTask", "ShoppingTask",
     "Session", "session", "templates"}

\* The detail each handler passes to HTTPException
Detail(op, c) ==
    CASE op = "update" /\ c = "personal" -> "Personal task not found"
      [] op = "update" /\ c = "work"     -> "Work task not found"
      [] op = "update" /\ c = "shopping" -> "Shopping task not found"
      [] op # "update" /\ c = "personal" -> "You can't delete a non-existing task"
      [] op # "update" /\ c = "work"     -> "You can't delete a non-existing work task!"
      [] op # "update" /\ c = "shopping" -> "You can't delete a non-existing shopping task!"

\* An exception no handler catches: the server answers 500
Unhandled(exc) ==
    [status |-> 500, template |-> "", tasks |-> {}, task |-> NoTask,
     error |-> exc, detail |-> ""]

\* raise HTTPException(status_code=404, detail=...): evaluating the name
\* HTTPException comes first, and raises NameError when nothing binds it.
RaiseHTTPException(detail) ==
    IF "HTTPException" \in ImportedNames
    THEN [status |-> 404, template |-> "", tasks |-> {}, task |-> NoTask,
          error |-> "HTTPException", detail |-> detail]
    ELSE Unhandled("NameError")

\* templates.TemplateResponse(name, {"tasks": tasks, "task": task, ...})
TemplateResponse(name, tasks, task) ==
    [status |-> 200, template |-> name, tasks |-> tasks, task |-> task,
     error |-> "", detail |-> ""]

\* return None under response_class=HTMLResponse: status 200, empty body
ReturnNone ==
    [status |-> 200, template |-> "", tasks |-> {}, task |-> NoTask,
     error |-> "", detail |-> ""]

\* Mutant: the test on the rows left is inverted.
DeleteResultInverted(tasks) ==
    IF Cardinality(tasks) = 0
    THEN ReturnNone
    ELSE TemplateResponse("tasks.html", tasks, NoTask)

\* What delete returns after its commit, from the rows left in the table
DeleteResult(tasks) ==
    IF Cardinality(tasks) # 0
    THEN ReturnNone
    ELSE TemplateResponse("tasks.html", tasks, NoTask)

\* A request and the response it got
Exchange(op, c, id, body, r) ==
    [op |-> op, category |-> c, id |-> id, body |-> body,
     status |-> r.status, template |-> r.template, tasks |-> r.tasks,
     task |-> r.task, error |-> r.error, detail |-> r.detail]

---------------------------------------------------------------------------
(* The handlers, each run from its first line to its return *)

\* GET /
home ==
    /\ resp' = Exchange("home", "", 0, <<>>, TemplateResponse("index.html", {}, NoTask))
    /\ UNCHANGED <<db, flips, inflight, running>>

\* GET /tasks/{category}
get_tasks(c) ==
    /\ resp' = Exchange("list", c, 0, <<>>,
                 TemplateResponse("tasks.html", Query(db, HandlerModel("list", c)), NoTask))
    /\ UNCHANGED <<db, flips, inflight, running>>

\* POST /tasks/{category}.  The one await of the handler, for the body,
\* comes before its first use of the session.
create_task(c, body) ==
    LET p == ParseName(body)
        t == HandlerModel("create", c)
        row == NewTask(t, NextId(db, t), p.name)
    IN  IF p.error # ""
        THEN /\ resp' = Exchange("create", c, 0, body, Unhandled(p.error))
             /\ UNCHANGED <<db, flips, inflight, running>>
        ELSE /\ row.id <= MaxId
             /\ Cardinality(db) < MaxRows
             /\ db' = db \cup {row}
             /\ flips' = [k \in DOMAIN flips \cup {Key(row)} |->
                            IF k = Key(row) THEN 0 ELSE flips[k]]
             /\ resp' = Exchange("create", c, 0, body,
                          TemplateResponse("tasks.html", Query(db', t), NoTask))
             /\ UNCHANGED <<inflight, running>>

\* PUT /tasks/{category}/{task_id}
update_task(c, id) ==
    LET t == HandlerModel("update", c)
        row == First(db, t, id)
    IN  IF row = NoTask
        THEN /\ resp' = Exchange("update", c, id, <<>>,
                          RaiseHTTPException(Detail("update", c)))
             /\ UNCHANGED <<db, flips, inflight, running>>
        ELSE /\ db' = (db \ {row}) \cup {Negated(row)}
             /\ flips' = [flips EXCEPT ![Key(row)] = 1 - @]
             /\ resp' = Exchange("update", c, id, <<>>,
                          TemplateResponse("task.html", {}, Negated(row)))
             /\ UNCHANGED <<inflight, running>>

\* Mutant: the confirmation route deletes the task it asks about.
confirmation_that_deletes(c, id) ==
    LET t == HandlerModel("confirm", c)
        row == First(db, t, id)
    IN  /\ resp' = Exchange("confirm", c, id, <<>>,
                     IF row = NoTask
                     THEN RaiseHTTPException(Detail("confirm", c))
                     ELSE TemplateResponse("modal.html", Query(db, t), row))
        /\ db' = db \ {row}
        /\ flips' = [k \in DOMAIN flips \ {Key(row)} |-> flips[k]]
        /\ UNCHANGED <<inflight, running>>

\* GET /tasks/{category}/confirm-delete/{task_id}
get_task_delete_confirmation(c, id) ==
    LET t == HandlerModel("confirm", c)
        row == First(db, t, id)
    IN  /\ resp' = Exchange("confirm", c, id, <<>>,
                     IF row = NoTask
                     THEN RaiseHTTPException(Detail("confirm", c))
                     ELSE TemplateResponse("modal.html", Query(db, t), row))
        /\ UNCHANGED <<db, flips, inflight, running>>

\* DELETE /tasks/{category}/{task_id}
delete_task(c, id) ==
    LET t == HandlerModel("delete", c)
        row == First(db, t, id)
    IN  IF row = NoTask
        THEN /\ resp' = Exchange("delete", c, id, <<>>,
                          RaiseHTTPException(Detail("delete", c)))
             /\ UNCHANGED <<db, flips, inflight, running>>
        ELSE /\ db' = db \ {row}
             /\ flips' = [k \in DOMAIN flips \ {Key(row)} |-> flips[k]]
             /\ resp' = Exchange("delete", c, id, <<>>, DeleteResult(Query(db', t)))
             /\ UNCHANGED <<inflight, running>>

---------------------------------------------------------------------------
(* Requests, one at a time *)

\* application/x-www-form-urlencoded serialisation of one character
EncodeChar(ch) ==
    CASE ch = " " -> <<"+">>
      [] ch = "%" -> <<"%", "2", "5">>
      [] ch = "&" -> <<"%", "2", "6">>
      [] ch = "+" -> <<"%", "2", "B">>
      [] ch = "=" -> <<"%", "3", "D">>
      [] OTHER    -> <<ch>>

RECURSIVE FormEncode(_)
FormEncode(s) ==
    IF s = <<>> THEN <<>> ELSE EncodeChar(s[1]) \o FormEncode(Tail(s))

\* The body the task form posts for the text n of its name field
FormBody(n) == <<"n", "a", "m", "e", "=">> \o FormEncode(n)

BuyMilk == <<"B", "u", "y", " ", "m", "i", "l", "k">>

Names == {BuyMilk}

Bodies == {FormBody(n) : n \in Names} \cup {<<>>}

Ids == 1..MaxId

InitResp == Exchange("none", "", 0, <<>>, ReturnNone)

Init ==
    /\ db = {}
    /\ resp = InitResp
    /\ flips = <<>>
    /\ inflight = <<>>
    /\ running = 0

Next ==
    \/ home
    \/ \E c \in Categories : get_tasks(c)
    \/ \E c \in Categories, body \in Bodies : create_task(c, body)
    \/ \E c \in Categories, id \in Ids : update_task(c, id)
    \/ \E c \in Categories, id \in Ids : get_task_delete_confirmation(c, id)
    \/ \E c \in Categories, id \in Ids : delete_task(c, id)

Spec == Init /\ [][Next]_vars

---------------------------------------------------------------------------
(* Any request body to create (SpecForm) *)

BodyChars == {"x", "="}

RECURSIVE Texts(_)
Texts(n) ==
    IF n = 0 THEN {<<>>}
    ELSE Texts(n - 1) \cup
         {Append(s, ch) : s \in {u \in Texts(n - 1) : Len(u) = n - 1}, ch \in BodyChars}

RawBodies == Texts(MaxBodyLen) \cup Bodies

NextForm ==
    \/ \E c \in Categories : get_tasks(c)
    \/ \E c \in Categories, body \in RawBodies : create_task(c, body)

SpecForm == Init /\ [][NextForm]_vars

---------------------------------------------------------------------------
(* Requests in flight together on the one event loop (SpecConc) *)

\* Mutant: update and delete await between the lookup and the commit.
SuspendsAtLookup(op, pc) == (op = "create" /\ pc = "await_body") \/ pc = "found"

\* Whether a handler's coroutine gives up the event loop on reaching a
\* position: its awaits.  create awaits request.body(); no handler awaits
\* between its lookup and its commit.
Suspends(op, pc) == op = "create" /\ pc = "await_body"

Request(op, c, id, body) ==
    [op |-> op, category |-> c, id |-> id, body |-> body,
     pc |-> "accepted", row |-> NoTask, result |-> ReturnNone]

Handles == DOMAIN inflight

\* The loop after request h has reached position pc
Loop(h, pc) == IF pc = "done" \/ Suspends(inflight[h].op, pc) THEN 0 ELSE h

Moved(h, pc, row, result) ==
    /\ inflight' = [inflight EXCEPT ![h].pc = pc, ![h].row = row, ![h].result = result]
    /\ running' = Loop(h, pc)

\* A request arrives and its handler's coroutine is created
accept(op, c, id, body) ==
    /\ Len(inflight) < MaxRequests
    /\ inflight' = Append(inflight, Request(op, c, id, body))
    /\ UNCHANGED <<db, resp, flips, running>>

\* create up to its await of the body
start_create(h) ==
    /\ running = 0
    /\ inflight[h].op = "create" /\ inflight[h].pc = "accepted"
    /\ Moved(h, "await_body", NoTask, ReturnNone)
    /\ UNCHANGED <<db, resp, flips>>

\* create from the body to its return
resume_create(h) ==
    LET q == inflight[h]
        p == ParseName(q.body)
        t == HandlerModel("create", q.category)
        row == NewTask(t, NextId(db, t), p.name)
    IN  /\ running \in {0, h}
        /\ q.op = "create" /\ q.pc = "await_body"
        /\ IF p.error # ""
           THEN /\ Moved(h, "done", NoTask, Unhandled(p.error))
                /\ UNCHANGED <<db, flips>>
           ELSE /\ row.id <= MaxId
                /\ Cardinality(db) < MaxRows
                /\ db' = db \cup {row}
                /\ flips' = [k \in DOMAIN flips \cup {Key(row)} |->
                               IF k = Key(row) THEN 0 ELSE flips[k]]
                /\ Moved(h, "done", row,
                         TemplateResponse("tasks.html", Query(db', t), NoTask))
        /\ UNCHANGED resp

\* update and delete up to the existence check
start_lookup(h) ==
    LET q == inflight[h]
        row == First(db, HandlerModel(q.op, q.category), q.id)
    IN  /\ running = 0
        /\ q.op \in {"update", "delete"} /\ q.pc = "accepted"
        /\ IF row = NoTask
           THEN Moved(h, "done", NoTask, RaiseHTTPException(Detail(q.op, q.category)))
           ELSE Moved(h, "found", row, ReturnNone)
        /\ UNCHANGED <<db, resp, flips>>

\* update from the existence check to its return.  The task is the session's
\* one object for the row: its status is read as the store holds it now, and
\* reading it after the row is gone raises.
finish_update(h) ==
    LET q == inflight[h]
        cur == First(db, HandlerModel("update", q.category), q.id)
    IN  /\ running \in {0, h}
        /\ q.op = "update" /\ q.pc = "found"
        /\ IF cur = NoTask
           THEN /\ Moved(h, "done", q.row, Unhandled("ORMError"))
                /\ UNCHANGED <<db, flips>>
           ELSE /\ db' = (db \ {cur}) \cup {Negated(cur)}
                /\ flips' = [flips EXCEPT ![Key(cur)] = 1 - @]
                /\ Moved(h, "done", q.row,
                         TemplateResponse("task.html", {}, Negated(cur)))
        /\ UNCHANGED resp

\* delete from the existence check to its return
finish_delete(h) ==
    LET q == inflight[h]
        t == HandlerModel("delete", q.category)
        cur == First(db, t, q.id)
    IN  /\ running \in {0, h}
        /\ q.op = "delete" /\ q.pc = "found"
        /\ IF cur = NoTask
           THEN /\ Moved(h, "done", q.row, Unhandled("ORMError"))
                /\ UNCHANGED <<db, flips>>
           ELSE /\ db' = db \ {cur}
                /\ flips' = [k \in DOMAIN flips \ {Key(cur)} |-> flips[k]]
                /\ Moved(h, "done", q.row, DeleteResult(Query(db', t)))
        /\ UNCHANGED resp

\* One step of request h's coroutine
step(h) ==
    \/ start_create(h)
    \/ resume_create(h)
    \/ start_lookup(h)
    \/ finish_update(h)
    \/ finish_delete(h)

ConcCategories == {"personal"}

ConcBodies == {FormBody(<<"x">>)}

NextConc ==
    \/ \E c \in ConcCategories, body \in ConcBodies : accept("create", c, 0, body)
    \/ \E c \in ConcCategories, id \in Ids : accept("update", c, id, <<>>)
    \/ \E c \in ConcCategories, id \in Ids : accept("delete", c, id, <<>>)
    \/ \E h \in Handles : start_create(h)
    \/ \E h \in Handles : resume_create(h)
    \/ \E h \in Handles : start_lookup(h)
    \/ \E h \in Handles : finish_update(h)
    \/ \E h \in Handles : finish_delete(h)

SpecConc == Init /\ [][NextConc]_vars

---------------------------------------------------------------------------
(* Properties of the handlers run one at a time (Spec) *)

Addressed(e, op, c, id) == e.op = op /\ e.category = c /\ e.id = id

LookupOps == {"update", "confirm", "delete"}

\* C1: toggle, confirm-delete and delete of an id that resolves to no row of
\* the category's table answer 404 with a detail message and change no table.
NotFoundIs404 ==
    [][\A c \in Categories, id \in Ids, op \in LookupOps :
         (Addressed(resp', op, c, id) /\ First(db, TableName(c), id) = NoTask)
            => (resp'.status = 404 /\ resp'.detail # "" /\ db' = db)]_vars

\* C2: once delete(id) has succeeded in a category, no later operation makes
\* that id resolve to a task of the category again.
DeletedIdStaysGone ==
    [][(resp.op = "delete" /\ resp.status = 200)
          => First(db', TableName(resp.category), resp.id) = NoTask]_vars

\* C3, as claimed: after create(N) succeeds in C, the listing of C holds
\* exactly one task named N, and it is not completed.
CreateListsExactlyOne ==
    (resp.op = "create" /\ resp.status = 200) =>
        LET named == {r \in Query(db, TableName(resp.category)) :
                        r.name = ParseName(resp.body).name}
        IN  Cardinality(named) = 1 /\ \A r \in named : ~r.status

\* C3, amended: a successful create(N) in C adds exactly one row to C's
\* table, with a new id, the name N and completed = false, so C holds one
\* more task named N than before; the list it returns is C's whole table
\* after the insert.
CreateAddsOne ==
    [][\A c \in Categories :
         (resp'.op = "create" /\ resp'.status = 200 /\ resp'.category = c) =>
            LET t == TableName(c)
                n == ParseName(resp'.body).name
            IN  /\ \E r \in db' \ db :
                     /\ db' = db \cup {r}
                     /\ r.tablename = t /\ r.name = n /\ ~r.status
                     /\ \A q \in Query(db, t) : q.id # r.id
                /\ Cardinality({r \in Query(db', t) : r.name = n})
                     = Cardinality({r \in Query(db, t) : r.name = n}) + 1
                /\ resp'.tasks = Query(db', t)]_vars

\* C3 witness: a create has just returned a list with two tasks of the name
\* it stored, one of them completed.
CreatedSecondOfName ==
    /\ resp.op = "create" /\ resp.status = 200
    /\ LET named == {r \in resp.tasks : r.name = ParseName(resp.body).name}
       IN  Cardinality(named) = 2 /\ \E r \in named : r.status

\* C4: each successful toggle leaves the task with the negation of its
\* completed value and returns the task as updated; a task toggled an even
\* number of times holds the value it was created with (two toggles restore
\* it), one toggled an odd number of times the negation.
ToggleTwiceRestores ==
    /\ [](\A r \in db : Key(r) \in DOMAIN flips /\ (r.status <=> flips[Key(r)] = 1))
    /\ [][\A c \in Categories, id \in Ids :
            (Addressed(resp', "update", c, id) /\ resp'.status = 200) =>
               LET old == First(db, TableName(c), id)
                   new == First(db', TableName(c), id)
               IN  /\ old # NoTask /\ new # NoTask
                   /\ new.status = ~old.status
                   /\ resp'.task = new]_vars

\* C4 witness: a toggle has just returned a task to the value it was created
\* with, its second toggle at least.
ToggledBack ==
    /\ resp.op = "update" /\ resp.status = 200
    /\ ~resp.task.status
    /\ flips[Key(resp.task)] = 0

\* C5: an operation addressed to one category leaves the other two tables as
\* they were, and every task it returns is a row of the addressed category's
\* table.
CategoryIsolation ==
    [][\A c \in Categories :
         resp'.category = c =>
            /\ \A c2 \in Categories \ {c} :
                  Query(db', TableName(c2)) = Query(db, TableName(c2))
            /\ \A r \in resp'.tasks : r.tablename = TableName(c)
            /\ resp'.task # NoTask => resp'.task.tablename = TableName(c)]_vars

\* C5 witness: a work task has just been toggled while the personal table
\* holds a task of the same id that is still not completed.
SameIdTwoCategories ==
    /\ resp.op = "update" /\ resp.status = 200 /\ resp.category = "work"
    /\ resp.task.status
    /\ First(db, TableName("personal"), resp.id) # NoTask
    /\ ~First(db, TableName("personal"), resp.id).status

\* C6: a successful delete removes exactly the addressed row, and answers
\* with no content exactly when a row is left in the category's table;
\* after the last row it answers with the list fragment of the empty table.
DeleteAnswer ==
    [][\A c \in Categories, id \in Ids :
         (Addressed(resp', "delete", c, id) /\ resp'.status = 200) =>
            LET t == TableName(c)
                old == First(db, t, id)
            IN  /\ old # NoTask
                /\ db' = db \ {old}
                /\ resp'.template = "" <=> Query(db', t) # {}
                /\ Query(db', t) = {} =>
                      (resp'.template = "tasks.html" /\ resp'.tasks = {})]_vars

\* C6 witness: the last task of a category has just been deleted, while
\* another category still holds tasks.
DeletedLastOfCategory ==
    /\ resp.op = "delete" /\ resp.status = 200
    /\ resp.template = "tasks.html"
    /\ Query(db, TableName(resp.category)) = {}
    /\ db # {}

\* C7: the name create stores is the name the client submitted.
StoredNameIsSubmitted ==
    \A n \in Names :
        (resp.op = "create" /\ resp.body = FormBody(n)) =>
            /\ resp.status = 200
            /\ \E r \in resp.tasks :
                  r.name = n /\ \A q \in resp.tasks : q.id <= r.id

\* C10: over every step, a task present before and after keeps its id and
\* name, and its completed value changes only by a successful toggle of its
\* own id in its own category; home, list and confirm-delete change nothing,
\* confirm-delete returns the task and the whole list, and toggle and delete
\* touch no row but the addressed one.
FrameOfTasks ==
    [][/\ \A r \in db, q \in db' :
             Key(r) = Key(q) =>
                /\ q.name = r.name
                /\ q.status # r.status =>
                      /\ resp'.op = "update" /\ resp'.status = 200
                      /\ resp'.category \in Categories
                      /\ Key(r) = <<TableName(resp'.category), resp'.id>>
       /\ resp'.op \in {"home", "list", "confirm"} => db' = db
       /\ \A c \in Categories :
             (resp'.op = "confirm" /\ resp'.status = 200 /\ resp'.category = c) =>
                /\ resp'.task = First(db, TableName(c), resp'.id)
                /\ resp'.tasks = Query(db, TableName(c))
       /\ \A c \in Categories :
             (resp'.op \in {"update", "delete"} /\ resp'.category = c) =>
                \A r \in db :
                   Key(r) # <<TableName(c), resp'.id>> => r \in db']_vars

\* C10 witness: a confirmation has just been rendered for a completed task
\* with the list of the two tasks of its table.
ConfirmedToggledTask ==
    /\ resp.op = "confirm" /\ resp.status = 200
    /\ resp.task.status
    /\ Cardinality(resp.tasks) = 2

---------------------------------------------------------------------------
(* Properties of create over any body (SpecForm) *)

\* C8, as claimed: create inserts exactly one new task whatever the body is.
CreateNeverRejects ==
    [][resp'.op = "create" => \E r \in db' \ db : db' = db \cup {r}]_vars

\* C8, amended: create inserts exactly one new task when the body holds at
\* least one '=', named by the percent-decoded text between the first '=' and
\* the next one (or the end); a body with no '=', the empty body included,
\* ends in an unhandled IndexError, answered 500, and inserts nothing.
CreateInsertsIffSeparator ==
    [][\A c \in Categories :
         (resp'.op = "create" /\ resp'.category = c) =>
            LET body == resp'.body
                seps == {i \in 1..Len(body) : body[i] = "="}
                at(k) == CHOOSE i \in seps : Cardinality({j \in seps : j < i}) = k
                stop == IF Cardinality(seps) > 1 THEN at(1) - 1 ELSE Len(body)
            IN  IF seps # {}
                THEN /\ resp'.status = 200
                     /\ \E r \in db' \ db :
                           /\ db' = db \cup {r}
                           /\ r.tablename = TableName(c)
                           /\ r.name = Unquote(SubSeq(body, at(0) + 1, stop))
                ELSE /\ resp'.status = 500 /\ resp'.error = "IndexError"
                     /\ db' = db]_vars

\* C8 witness: a body of some text without '=' has just been refused, the
\* tables keeping the rows they had.
RefusedBodyWithoutSeparator ==
    /\ resp.op = "create" /\ resp.error = "IndexError"
    /\ resp.body # <<>>
    /\ db # {}

---------------------------------------------------------------------------
(* Properties of requests in flight together (SpecConc) *)

SameRecord(q, r) == q.category = r.category /\ q.id = r.id

\* C9, as claimed: a toggle that has passed its existence check can be
\* overtaken, before its commit, by a toggle or delete of the same id that
\* is in flight with it.
RaceWindowOpen ==
    \A h \in Handles, k \in Handles :
        (/\ h # k
         /\ inflight[h].op = "update" /\ inflight[h].pc = "found"
         /\ inflight[k].op \in {"update", "delete"} /\ inflight[k].pc = "accepted"
         /\ SameRecord(inflight[h], inflight[k]))
            => ENABLED step(k)

\* C9, amended: no handler awaits between its existence check and its commit,
\* so on the one event loop a toggle or delete that has found its row holds
\* the loop until it returns: no other request's handler can take a step, the
\* row is still as found, every toggle that passes its check negates the row
\* and returns it, no toggle is lost, and none ends in an ORM error.
NoRaceWindow ==
    /\ \A h \in Handles :
          LET q == inflight[h]
          IN  /\ q.pc = "found" =>
                    /\ running = h
                    /\ q.row \in db
                    /\ \A k \in Handles \ {h} : ~ENABLED step(k)
              /\ q.pc = "done" => q.result.error # "ORMError"
              /\ (q.pc = "done" /\ q.op = "update" /\ q.result.status = 200) =>
                    q.result.task = Negated(q.row)
    /\ \A r \in db : Key(r) \in DOMAIN flips /\ (r.status <=> flips[Key(r)] = 1)

\* C9 witness: a toggle has passed its existence check while a delete of the
\* same id is in flight.
ToggleFoundWhileDeleteInFlight ==
    \E h \in Handles, k \in Handles :
        /\ inflight[h].op = "update" /\ inflight[h].pc = "found"
        /\ inflight[k].op = "delete" /\ inflight[k].pc = "accepted"
        /\ SameRecord(inflight[h], inflight[k])

====
